---------------------------- MODULE Spec2Model ----------------------------
(* A model of bip322-js: the address helpers (src/src/helpers/Address.ts),  *)
(* the signature verifier (Verifier.verifySignature, exercised by           *)
(* src/unnamed/part_000) and the helper that re-headers a BIP-137           *)
(* signature (generateCompatibleSignatures, src/unnamed/part_000).          *)
(*                                                                          *)
(* Cryptography is modelled symbolically: a hash, a tweak or a signature is *)
(* a term over its inputs, two terms are equal exactly when their inputs    *)
(* are, and a signature verifies exactly against the key and the digest it  *)
(* was made for.  Text is modelled by what the code reads of it: an address *)
(* string is the record of its leading characters, its length and what its  *)
(* decoding yields; a byte buffer is its length, its first and last byte    *)
(* and its content.                                                         *)
EXTENDS Integers, Sequences, FiniteSets, TLC

-----------------------------------------------------------------------------
(* Bounds of the model *)

\* Number of key pairs whose addresses and signatures are enumerated.
NumKeys == 2
\* Number of distinct messages.
NumMsgs == 2
\* Largest number of items of an enumerated witness stack.
MaxItems == 3

Keys == 1..NumKeys
Messages == 1..NumMsgs

-----------------------------------------------------------------------------
(* Values a call can end with: a boolean, or the kind of the error raised *)

Value(v) == [threw |-> FALSE, val |-> v]
Throw(kind) == [threw |-> TRUE, val |-> kind]

ErrorKinds ==
    {"InvalidAddress", "UnsupportedAddress", "MalformedWitness", "InvalidSighash",
     "InvalidSchnorrSignature", "InvalidSignature", "RecoveryFailed"}

-----------------------------------------------------------------------------
(* bitcoinjs-lib: networks, hashes, scripts, address encodings *)

\* bitcoin.networks.*: base58 version bytes and the bech32 prefix.
Networks ==
    [bitcoin |-> [pubKeyHash |-> 0, scriptHash |-> 5, bech32 |-> <<"b", "c">>],
     testnet |-> [pubKeyHash |-> 111, scriptHash |-> 196, bech32 |-> <<"t", "b">>],
     regtest |-> [pubKeyHash |-> 111, scriptHash |-> 196,
                  bech32 |-> <<"b", "c", "r", "t">>]]

\* Public keys as byte buffers: 33 bytes 0x02/0x03 || X, 65 bytes 0x04 || X || Y,
\* 32 bytes X (x-only).
CompressedKey(k) == [len |-> 33, first |-> IF k % 2 = 1 THEN 2 ELSE 3, id |-> k]
UncompressedKey(k) == [len |-> 65, first |-> 4, id |-> k]
XOnlyKey(k) == [len |-> 32, first |-> 0, id |-> k]

\* bitcoin.crypto.hash160 and the taproot output key, as terms.
Hash160(x) == [fn |-> "hash160", of |-> x]
Sha256(x) == [fn |-> "sha256", of |-> x]
TapTweak(x) == [fn |-> "taptweak", of |-> x]

\* The redeem script OP_0 <20-byte key hash> of a P2SH-P2WPKH address.
WitnessProgramV0(h) == [fn |-> "op0push", of |-> h]

\* Output scripts: the template, the pushed program and the script's length.
Script(type, prog, n) == [type |-> type, prog |-> prog, byteLength |-> n]
P2PKHScript(h) == Script("p2pkh", h, 25)
P2SHScript(h) == Script("p2sh", h, 23)
P2WPKHScript(h) == Script("p2wpkh", h, 22)
P2WSHScript(h) == Script("p2wsh", h, 34)
P2TRScript(x) == Script("p2tr", x, 34)

\* The first character of a base58check string with this version byte.
Base58Lead(ver, prog) ==
    CASE ver = 0 -> <<"1">>
      [] ver = 5 -> <<"3">>
      [] ver = 196 -> <<"2">>
      [] OTHER -> IF prog.of.len = 33 THEN <<"n">> ELSE <<"m">>

\* base58check(version || 20-byte hash): 34 characters, 35 for a testnet P2SH.
Base58Address(ver, prog) ==
    [enc |-> "base58", head |-> Base58Lead(ver, prog),
     len |-> IF ver = 196 THEN 35 ELSE 34,
     hrp |-> <<>>, ver |-> ver, prog |-> prog, plen |-> 20, sum |-> TRUE]

\* The bech32 character of a witness version.
VersionChar(ver) ==
    CASE ver = 0 -> "q"
      [] ver = 1 -> "p"
      [] OTHER -> "z"

\* Number of 5-bit characters that carry n bytes.
Words(n) == (n * 8 + 4) \div 5

\* bech32 (version 0) or bech32m (version 1 and above) of a witness program:
\* prefix, "1", the version character, the data and a 6-character checksum.
Bech32Address(hrp, ver, prog, plen) ==
    [enc |-> IF ver = 0 THEN "bech32" ELSE "bech32m",
     head |-> SubSeq(hrp \o <<"1", VersionChar(ver)>>, 1, 4),
     len |-> Len(hrp) + 2 + Words(plen) + 6,
     hrp |-> hrp, ver |-> ver, prog |-> prog, plen |-> plen, sum |-> TRUE]

\* A string with one more character at its end: its checksum no longer holds.
AppendChar(a) == [a EXCEPT !.len = @ + 1, !.sum = FALSE]

\* A string that is neither base58check nor bech32.
JunkAddress(head, n) ==
    [enc |-> "none", head |-> head, len |-> n, hrp |-> <<>>, ver |-> 0,
     prog |-> Sha256([len |-> 0, first |-> 0, id |-> 0]), plen |-> 0, sum |-> FALSE]

\* JavaScript's address[0] and address.slice(0, 4).
FirstChar(address) == IF Len(address.head) = 0 THEN "" ELSE address.head[1]
Slice4(address) == address.head

\* bitcoin.payments.p2pkh / p2sh ({address, network}).output: base58check
\* decoding, then the version byte must be the network's.
PaymentBase58(type, address, network) ==
    IF address.enc = "base58" /\ address.sum /\ address.plen = 20
       /\ address.ver = (IF type = "p2pkh" THEN network.pubKeyHash
                                          ELSE network.scriptHash)
    THEN Value(IF type = "p2pkh" THEN P2PKHScript(address.prog)
                                 ELSE P2SHScript(address.prog))
    ELSE Throw("TypeError")

\* bitcoin.payments.p2wpkh / p2wsh / p2tr ({address, network}).output: bech32(m)
\* decoding, then prefix, witness version and program length must fit the type.
PaymentBech32(type, address, network) ==
    LET ver == IF type = "p2tr" THEN 1 ELSE 0
        n == IF type = "p2wpkh" THEN 20 ELSE 32
    IN IF address.enc = (IF ver = 0 THEN "bech32" ELSE "bech32m") /\ address.sum
          /\ address.hrp = network.bech32 /\ address.ver = ver /\ address.plen = n
       THEN Value(CASE type = "p2wpkh" -> P2WPKHScript(address.prog)
                    [] type = "p2wsh" -> P2WSHScript(address.prog)
                    [] OTHER -> P2TRScript(address.prog))
       ELSE Throw("TypeError")

\* bitcoin.address.toOutputScript(address, network): base58check first, then
\* bech32 (version 0) or bech32m (version 1 and above); a witness version of
\* 2..16 yields a script as well.
ToOutputScript(address, network) ==
    IF address.enc = "base58" /\ address.sum /\ address.plen = 20
       /\ address.ver \in {network.pubKeyHash, network.scriptHash}
    THEN Value(IF address.ver = network.pubKeyHash THEN P2PKHScript(address.prog)
                                                   ELSE P2SHScript(address.prog))
    ELSE IF address.enc = (IF address.ver = 0 THEN "bech32" ELSE "bech32m")
            /\ address.sum /\ address.hrp = network.bech32
         THEN CASE address.ver = 0 /\ address.plen = 20 -> Value(P2WPKHScript(address.prog))
                [] address.ver = 0 /\ address.plen = 32 -> Value(P2WSHScript(address.prog))
                [] address.ver = 1 /\ address.plen = 32 -> Value(P2TRScript(address.prog))
                [] address.ver \in 2..16 /\ address.plen \in 2..40 ->
                       Value(Script("future", address.prog, address.plen + 2))
                [] OTHER -> Throw("no matching Script")
         ELSE Throw("no matching Script")

-----------------------------------------------------------------------------
(* src/src/helpers/Address.ts *)

\* isP2PKH that knows the mainnet prefix alone.
isP2PKH_MainnetOnly(address) ==
    IF FirstChar(address) = "1" THEN TRUE ELSE FALSE

\* Address.isP2PKH: the first character is '1', 'm' or 'n'.
isP2PKH(address) ==
    IF FirstChar(address) = "1" \/ FirstChar(address) = "m" \/ FirstChar(address) = "n"
    THEN TRUE
    ELSE FALSE

\* isP2SH that knows the mainnet prefix alone.
isP2SH_MainnetOnly(address) ==
    IF FirstChar(address) = "3" THEN TRUE ELSE FALSE

\* Address.isP2SH: the first character is '3' or '2'.
isP2SH(address) ==
    IF FirstChar(address) = "3" \/ FirstChar(address) = "2"
    THEN TRUE
    ELSE FALSE

\* isP2TR without the testnet prefix.
isP2TR_MainnetOnly(address) ==
    IF Slice4(address) = <<"b", "c", "1", "p">> THEN TRUE ELSE FALSE

\* isP2TR that looks at three characters, 'bc1' or 'tb1'.
isP2TR_AnySegwit(address) ==
    IF Len(Slice4(address)) >= 3
       /\ SubSeq(Slice4(address), 1, 3) \in {<<"b", "c", "1">>, <<"t", "b", "1">>}
    THEN TRUE
    ELSE FALSE

\* Address.isP2TR: the first four characters are 'bc1p' or 'tb1p'.
isP2TR(address) ==
    IF Slice4(address) = <<"b", "c", "1", "p">> \/ Slice4(address) = <<"t", "b", "1", "p">>
    THEN TRUE
    ELSE FALSE

\* convertAdressToScriptPubkey with the P2TR payment always on mainnet.
convertAdressToScriptPubkey_TaprootOnMainnet(address) ==
    IF FirstChar(address) = "1" \/ FirstChar(address) = "m" \/ FirstChar(address) = "n"
    THEN PaymentBase58("p2pkh", address,
             IF FirstChar(address) = "1" THEN Networks.bitcoin ELSE Networks.testnet)
    ELSE IF FirstChar(address) = "3" \/ FirstChar(address) = "2"
    THEN PaymentBase58("p2sh", address,
             IF FirstChar(address) = "3" THEN Networks.bitcoin ELSE Networks.testnet)
    ELSE IF Slice4(address) = <<"b", "c", "1", "q">> \/ Slice4(address) = <<"t", "b", "1", "q">>
    THEN LET network == IF Slice4(address) = <<"b", "c", "1", "q">>
                        THEN Networks.bitcoin ELSE Networks.testnet
         IN IF address.len = 42 THEN PaymentBech32("p2wpkh", address, network)
            ELSE IF address.len = 62 THEN PaymentBech32("p2wsh", address, network)
            ELSE Throw("Unknown address type")
    ELSE IF Slice4(address) = <<"b", "c", "1", "p">> \/ Slice4(address) = <<"t", "b", "1", "p">>
    THEN IF address.len = 62
         THEN PaymentBech32("p2tr", address, Networks.bitcoin)
         ELSE Throw("Unknown address type")
    ELSE Throw("Unknown address type")

\* convertAdressToScriptPubkey without its last line: what matches no branch
\* returns undefined.
convertAdressToScriptPubkey_NoFinalThrow(address) ==
    IF FirstChar(address) = "1" \/ FirstChar(address) = "m" \/ FirstChar(address) = "n"
    THEN PaymentBase58("p2pkh", address,
             IF FirstChar(address) = "1" THEN Networks.bitcoin ELSE Networks.testnet)
    ELSE IF FirstChar(address) = "3" \/ FirstChar(address) = "2"
    THEN PaymentBase58("p2sh", address,
             IF FirstChar(address) = "3" THEN Networks.bitcoin ELSE Networks.testnet)
    ELSE IF Slice4(address) = <<"b", "c", "1", "q">> \/ Slice4(address) = <<"t", "b", "1", "q">>
    THEN LET network == IF Slice4(address) = <<"b", "c", "1", "q">>
                        THEN Networks.bitcoin ELSE Networks.testnet
         IN IF address.len = 42 THEN PaymentBech32("p2wpkh", address, network)
            ELSE IF address.len = 62 THEN PaymentBech32("p2wsh", address, network)
            ELSE Value(Script("undefined", Hash160(XOnlyKey(0)), 0))
    ELSE IF Slice4(address) = <<"b", "c", "1", "p">> \/ Slice4(address) = <<"t", "b", "1", "p">>
    THEN IF address.len = 62
         THEN PaymentBech32("p2tr", address,
                  IF Slice4(address) = <<"b", "c", "1", "p">>
                  THEN Networks.bitcoin ELSE Networks.testnet)
         ELSE Value(Script("undefined", Hash160(XOnlyKey(0)), 0))
    ELSE Value(Script("undefined", Hash160(XOnlyKey(0)), 0))

\* Address.convertAdressToScriptPubkey: the payment is picked by the prefix and,
\* for bech32, by the string's length; the network by the prefix.  Whatever
\* falls through the branches raises "Unknown address type"; a payment that
\* cannot decode the address raises its own error.
convertAdressToScriptPubkey(address) ==
    IF FirstChar(address) = "1" \/ FirstChar(address) = "m" \/ FirstChar(address) = "n"
    THEN PaymentBase58("p2pkh", address,
             IF FirstChar(address) = "1" THEN Networks.bitcoin ELSE Networks.testnet)
    ELSE IF FirstChar(address) = "3" \/ FirstChar(address) = "2"
    THEN PaymentBase58("p2sh", address,
             IF FirstChar(address) = "3" THEN Networks.bitcoin ELSE Networks.testnet)
    ELSE IF Slice4(address) = <<"b", "c", "1", "q">> \/ Slice4(address) = <<"t", "b", "1", "q">>
    THEN LET network == IF Slice4(address) = <<"b", "c", "1", "q">>
                        THEN Networks.bitcoin ELSE Networks.testnet
         IN IF address.len = 42 THEN PaymentBech32("p2wpkh", address, network)
            ELSE IF address.len = 62 THEN PaymentBech32("p2wsh", address, network)
            ELSE Throw("Unknown address type")
    ELSE IF Slice4(address) = <<"b", "c", "1", "p">> \/ Slice4(address) = <<"t", "b", "1", "p">>
    THEN IF address.len = 62
         THEN PaymentBech32("p2tr", address,
                  IF Slice4(address) = <<"b", "c", "1", "p">>
                  THEN Networks.bitcoin ELSE Networks.testnet)
         ELSE Throw("Unknown address type")
    ELSE Throw("Unknown address type")

\* isP2WPKH without the length check on the script: P2WSH passes as P2WPKH.
isP2WPKH_NoLengthCheck(address) ==
    IF Slice4(address) = <<"b", "c", "1", "q">> \/ Slice4(address) = <<"t", "b", "1", "q">>
    THEN LET scriptPubKey == convertAdressToScriptPubkey(address)
         IN IF scriptPubKey.threw THEN scriptPubKey ELSE Value(TRUE)
    ELSE Value(FALSE)

\* Address.isP2WPKH: under the prefix 'bc1q'/'tb1q' the address is converted
\* (which may raise) and the script must be 22 bytes long.
isP2WPKH(address) ==
    IF Slice4(address) = <<"b", "c", "1", "q">> \/ Slice4(address) = <<"t", "b", "1", "q">>
    THEN LET scriptPubKey == convertAdressToScriptPubkey(address)
         IN IF scriptPubKey.threw THEN scriptPubKey
            ELSE IF scriptPubKey.val.byteLength = 22 THEN Value(TRUE) ELSE Value(FALSE)
    ELSE Value(FALSE)

\* isP2WPKHWitness that knows only the 0x02 lead byte.
isP2WPKHWitness_EvenOnly(witness) ==
    IF Len(witness) = 2 /\ witness[2].len = 33 /\ witness[2].first = 2
    THEN TRUE
    ELSE FALSE

\* Address.isP2WPKHWitness: two items, the second 33 bytes starting 0x02 or 0x03.
isP2WPKHWitness(witness) ==
    IF Len(witness) = 2 /\ witness[2].len = 33
       /\ (witness[2].first = 2 \/ witness[2].first = 3)
    THEN TRUE
    ELSE FALSE

\* isSingleKeyP2TRWitness with >= for ===.
isSingleKeyP2TRWitness_AtLeastOne(witness) ==
    IF Len(witness) >= 1 THEN TRUE ELSE FALSE

\* isSingleKeyP2TRWitness with <= for ===.
isSingleKeyP2TRWitness_AtMostOne(witness) ==
    IF Len(witness) <= 1 THEN TRUE ELSE FALSE

\* Address.isSingleKeyP2TRWitness: exactly one item.
isSingleKeyP2TRWitness(witness) ==
    IF Len(witness) = 1 THEN TRUE ELSE FALSE

\* An encoding of a curve point (ecc.isPoint, ec.keyFromPublic): 33 bytes led by
\* 0x02/0x03 or 65 bytes led by 0x04.
IsPointEncoding(key) ==
    \/ key.len = 33 /\ key.first \in {2, 3}
    \/ key.len = 65 /\ key.first = 4

\* bitcoin.payments.p2wpkh({pubkey}): the key must be a compressed point.
IsCompressedPoint(key) == IsPointEncoding(key) /\ key.len = 33

\* bitcoin.payments.p2tr({internalPubkey}): the internal key must be 32 bytes.
P2TRAddressOf(internalPubkey, network) ==
    IF internalPubkey.len = 32
    THEN Value(Bech32Address(network.bech32, 1, TapTweak(internalPubkey), 32))
    ELSE Throw("TypeError")

\* convertPubKeyIntoAddress that hands the 33-byte key to p2tr as it is.
convertPubKeyIntoAddress_FullKey(publicKey, addressType) ==
    CASE addressType = "p2pkh" ->
           IF ~IsPointEncoding(publicKey) THEN Throw("TypeError")
           ELSE
           Value([mainnet |-> Base58Address(Networks.bitcoin.pubKeyHash, Hash160(publicKey)),
                  testnet |-> Base58Address(Networks.testnet.pubKeyHash, Hash160(publicKey))])
      [] addressType = "p2sh-p2wpkh" ->
           IF ~IsCompressedPoint(publicKey) THEN Throw("TypeError")
           ELSE
           Value([mainnet |-> Base58Address(Networks.bitcoin.scriptHash,
                                  Hash160(WitnessProgramV0(Hash160(publicKey)))),
                  testnet |-> Base58Address(Networks.testnet.scriptHash,
                                  Hash160(WitnessProgramV0(Hash160(publicKey))))])
      [] addressType = "p2wpkh" ->
           IF ~IsCompressedPoint(publicKey) THEN Throw("TypeError")
           ELSE
           Value([mainnet |-> Bech32Address(Networks.bitcoin.bech32, 0, Hash160(publicKey), 20),
                  testnet |-> Bech32Address(Networks.testnet.bech32, 0, Hash160(publicKey), 20)])
      [] addressType = "p2tr" ->
           LET mainnet == P2TRAddressOf(publicKey, Networks.bitcoin)
               testnet == P2TRAddressOf(publicKey, Networks.testnet)
           IN IF mainnet.threw THEN mainnet
              ELSE Value([mainnet |-> mainnet.val, testnet |-> testnet.val])
      [] OTHER -> Throw("Cannot convert public key into unsupported address type.")

\* Address.convertPubKeyIntoAddress: the mainnet and the testnet address of a
\* public key for one of the four address types; for 'p2tr' a 33-byte key is
\* first cut to its bytes 1..32.
convertPubKeyIntoAddress(publicKey, addressType) ==
    CASE addressType = "p2pkh" ->
           IF ~IsPointEncoding(publicKey) THEN Throw("TypeError")
           ELSE
           Value([mainnet |-> Base58Address(Networks.bitcoin.pubKeyHash, Hash160(publicKey)),
                  testnet |-> Base58Address(Networks.testnet.pubKeyHash, Hash160(publicKey))])
      [] addressType = "p2sh-p2wpkh" ->
           IF ~IsCompressedPoint(publicKey) THEN Throw("TypeError")
           ELSE
           Value([mainnet |-> Base58Address(Networks.bitcoin.scriptHash,
                                  Hash160(WitnessProgramV0(Hash160(publicKey)))),
                  testnet |-> Base58Address(Networks.testnet.scriptHash,
                                  Hash160(WitnessProgramV0(Hash160(publicKey))))])
      [] addressType = "p2wpkh" ->
           IF ~IsCompressedPoint(publicKey) THEN Throw("TypeError")
           ELSE
           Value([mainnet |-> Bech32Address(Networks.bitcoin.bech32, 0, Hash160(publicKey), 20),
                  testnet |-> Bech32Address(Networks.testnet.bech32, 0, Hash160(publicKey), 20)])
      [] addressType = "p2tr" ->
           LET internalPubkey == IF publicKey.len = 33 THEN XOnlyKey(publicKey.id)
                                                       ELSE publicKey
               mainnet == P2TRAddressOf(internalPubkey, Networks.bitcoin)
               testnet == P2TRAddressOf(internalPubkey, Networks.testnet)
           IN IF mainnet.threw THEN mainnet
              ELSE Value([mainnet |-> mainnet.val, testnet |-> testnet.val])
      [] OTHER -> Throw("Cannot convert public key into unsupported address type.")

\* isValidBitcoinAddress that tries mainnet alone.
isValidBitcoinAddress_MainnetOnly(address) ==
    IF ~ToOutputScript(address, Networks.bitcoin).threw THEN TRUE ELSE FALSE

\* isValidBitcoinAddress that answers true after the last failure.
isValidBitcoinAddress_DefaultTrue(address) ==
    IF ~ToOutputScript(address, Networks.bitcoin).threw THEN TRUE
    ELSE IF ~ToOutputScript(address, Networks.testnet).threw THEN TRUE
    ELSE IF ~ToOutputScript(address, Networks.regtest).threw THEN TRUE
    ELSE TRUE

\* Address.isValidBitcoinAddress: mainnet, then testnet, then regtest; the first
\* decoding that succeeds answers true, and a failure only moves on.
isValidBitcoinAddress(address) ==
    IF ~ToOutputScript(address, Networks.bitcoin).threw THEN TRUE
    ELSE IF ~ToOutputScript(address, Networks.testnet).threw THEN TRUE
    ELSE IF ~ToOutputScript(address, Networks.regtest).threw THEN TRUE
    ELSE FALSE

\* Address.compressPublicKey / Address.uncompressPublicKey: the other encoding of
\* the same curve point; an encoding elliptic cannot read raises.
compressPublicKey(uncompressedPublicKey) ==
    IF IsPointEncoding(uncompressedPublicKey)
    THEN Value(CompressedKey(uncompressedPublicKey.id))
    ELSE Throw("Fails to compress the provided public key.")

uncompressPublicKey(compressedPublicKey) ==
    IF IsPointEncoding(compressedPublicKey)
    THEN Value(UncompressedKey(compressedPublicKey.id))
    ELSE Throw("Fails to uncompress the provided public key.")

-----------------------------------------------------------------------------
(* Signatures: the decoded transport string *)

\* bitcoin.Transaction.SIGHASH_*: the flags the tests sign under.
SIGHASH_DEFAULT == 0
SIGHASH_ALL == 1
SIGHASH_NONE == 2
SIGHASH_SINGLE == 3
SIGHASH_ANYONECANPAY == 128

\* The BIP-137 header range (generateCompatibleSignatures' start and end).
HeaderMin == 27
HeaderMax == 42

\* What a buffer's bytes are: nothing, a public key, or a signature made with
\* key `key` over `msg` for the script of address type `kind` under flag `ht`.
Body(alg, key, msg, kind, ht) ==
    [alg |-> alg, key |-> key, msg |-> msg, kind |-> kind, ht |-> ht]
NoBody == Body("none", 0, 0, "", 0)

\* A witness item: its length, first and last byte (-1 when empty), content.
Item(n, first, last, body) == [len |-> n, first |-> first, last |-> last, body |-> body]
EmptyItem == Item(0, -1, -1, NoBody)

\* A DER-encoded ECDSA signature followed by one sighash byte.
EcdsaItem(k, m, kind, ht, last) == Item(72, 48, last, Body("ecdsa", k, m, kind, ht))
\* A public key pushed as a witness item.
PubKeyItem(key) == Item(key.len, key.first, 0, Body("pubkey", key.id, 0, "", 0))
\* n bytes that start with a 64-byte Schnorr signature (n >= 64), or a cut one.
SchnorrItem(k, m, ht, n, last) ==
    Item(n, 0, last, IF n >= 64 THEN Body("schnorr", k, m, "p2tr", ht) ELSE NoBody)
\* A taproot control block (0xc0 || 32-byte internal key).
ControlBlockItem == Item(33, 192, 0, NoBody)

\* base64 of header || r || s, signed by key k over message m; header 27 + rec
\* (mod 4) is the recovery id under which r, s recover k.
LegacySignature(header, k, m, rec) ==
    [form |-> "legacy", header |-> header, body |-> Body("ecdsa", k, m, "legacy", rec),
     items |-> <<>>, raw |-> 65]
\* base64 of a serialized witness stack.
WitnessSignature(items) ==
    [form |-> "witness", header |-> Len(items), body |-> NoBody, items |-> items, raw |-> 0]
\* base64 of n bytes that are neither: a count byte that promises more items
\* than the buffer holds.
GarbageSignature(n) ==
    [form |-> "garbage", header |-> 255, body |-> NoBody, items |-> <<>>, raw |-> n]

RECURSIVE SerializedLength(_)
\* Bytes of the items of a serialized stack: CompactSize(len) || item, each.
SerializedLength(items) ==
    IF items = <<>> THEN 0
    ELSE 1 + Head(items).len + SerializedLength(Tail(items))

\* Buffer.from(signature, 'base64').byteLength and its byte 0.
RawLength(signature) ==
    IF signature.form = "witness" THEN 1 + SerializedLength(signature.items)
    ELSE signature.raw
Header(signature) == signature.header

\* Witness.deserialize: the stack a transport string decodes to.
Deserialize(signature) ==
    IF signature.form = "witness" THEN Value(signature.items)
    ELSE Throw("MalformedWitness")

-----------------------------------------------------------------------------
(* The curve provider: recovery and verification, symbolically *)

\* (header - 27) mod 4.
RecIdOf(header) == (header - HeaderMin) % 4

\* A key nobody holds: what recovery yields when r, s were not made for the
\* hash at hand.  None of its addresses is an address of a key of Keys.
UnrelatedKey == 0

\* ECDSA public key recovery from (hash of message, r, s, recId).  Under the
\* recovery id the signature was made with, the signer's key for the signed
\* message and an unrelated key for another one; with the parity bit flipped
\* another point, hence an unrelated key; with the overflow bit flipped no
\* point at all.
Recover(signature, message, recId) ==
    IF signature.form # "legacy" THEN Value(CompressedKey(UnrelatedKey))
    ELSE IF recId = signature.body.ht
    THEN Value(CompressedKey(IF message = signature.body.msg THEN signature.body.key
                                                             ELSE UnrelatedKey))
    ELSE IF recId \div 2 = signature.body.ht \div 2
    THEN Value(CompressedKey(UnrelatedKey))
    ELSE Throw("RecoveryFailed")

\* The script a signature body was made for: that of its key's address.
SignedScript(body) ==
    CASE body.kind = "p2wpkh" -> P2WPKHScript(Hash160(CompressedKey(body.key)))
      [] body.kind = "p2sh-p2wpkh" ->
             P2SHScript(Hash160(WitnessProgramV0(Hash160(CompressedKey(body.key)))))
      [] OTHER -> P2TRScript(TapTweak(XOnlyKey(body.key)))

\* ecc.verify over the sighash of toSign's input 0, which commits to the
\* message and the script (through toSpend) and to the sighash flag.
EcdsaVerify(message, scriptPubKey, hashType, publicKey, sig) ==
    /\ sig.body.alg = "ecdsa"
    /\ publicKey.body.alg = "pubkey"
    /\ sig.body.key = publicKey.body.key
    /\ sig.body.msg = message
    /\ SignedScript(sig.body) = scriptPubKey
    /\ sig.body.ht = hashType

\* ecc.verifySchnorr against the output key in the address's script.
SchnorrVerify(message, scriptPubKey, hashType, sig) ==
    /\ sig.body.alg = "schnorr"
    /\ SignedScript(sig.body) = scriptPubKey
    /\ sig.body.msg = message
    /\ sig.body.ht = hashType

-----------------------------------------------------------------------------
(* The legacy (BIP-137) verifier *)

\* The addresses a recovered key can produce: P2PKH of the compressed and of
\* the uncompressed key, P2SH-P2WPKH, P2WPKH and P2TR of the compressed key,
\* each on mainnet and testnet.
DerivedAddresses(publicKey) ==
    LET uncompressed == uncompressPublicKey(publicKey)
        all == {convertPubKeyIntoAddress(publicKey, t) :
                    t \in {"p2pkh", "p2sh-p2wpkh", "p2wpkh", "p2tr"}}
               \cup (IF uncompressed.threw THEN {}
                     ELSE {convertPubKeyIntoAddress(uncompressed.val, "p2pkh")})
    IN UNION {{r.val.mainnet, r.val.testnet} : r \in {x \in all : ~x.threw}}

\* Length and header first, then recovery, then membership of the address in
\* the derived set.
VerifyLegacy(address, message, signature) ==
    IF RawLength(signature) # 65
       \/ Header(signature) < HeaderMin \/ Header(signature) > HeaderMax
    THEN "InvalidSignature"
    ELSE LET recovered == Recover(signature, message, RecIdOf(Header(signature)))
         IN IF recovered.threw THEN "RecoveryFailed"
            ELSE IF address \in DerivedAddresses(recovered.val) THEN "true"
            ELSE "false"

-----------------------------------------------------------------------------
(* The BIP-322 verifier *)

\* The address classifier: the variant of an address, by the prefix rules in
\* their order; "Invalid" when the decoding under 'bc1q'/'tb1q' raises.
Classify(address) ==
    IF isP2PKH(address) THEN "P2PKH"
    ELSE IF isP2SH(address) THEN "P2SH"
    ELSE IF Slice4(address) = <<"b", "c", "1", "q">> \/ Slice4(address) = <<"t", "b", "1", "q">>
    THEN LET p2wpkh == isP2WPKH(address)
         IN IF p2wpkh.threw THEN "Invalid"
            ELSE IF p2wpkh.val THEN "P2WPKH" ELSE "P2WSH"
    ELSE IF isP2TR(address) THEN "P2TR"
    ELSE "Unsupported"

\* The kinds of error a failed shape requirement may surface as: the
\* requirement is stated, the kind of its failure is not.
RequireKinds == {"MalformedWitness", "UnsupportedAddress"}

\* P2WPKH and P2SH-P2WPKH: the witness shape, the sighash byte of the
\* signature, the ECDSA check against the pushed key, and the pushed key's
\* address against the queried one.
VerifyP2WPKH(address, message, scriptPubKey, witness, addressType, requireKind) ==
    IF ~isP2WPKHWitness(witness) THEN requireKind
    ELSE IF witness[1].last # SIGHASH_ALL THEN "InvalidSighash"
    ELSE LET publicKey == witness[2]
             own == convertPubKeyIntoAddress(
                        [len |-> publicKey.len, first |-> publicKey.first,
                         id |-> publicKey.body.key], addressType)
         IN IF /\ EcdsaVerify(message, scriptPubKey, SIGHASH_ALL, publicKey, witness[1])
               /\ ~own.threw
               /\ address \in {own.val.mainnet, own.val.testnet}
            THEN "true"
            ELSE "false"

\* P2TR: a stack that is no single item is refused, as a script-path spend
\* when it has two or more items; the single item is a
\* Schnorr signature of 64 bytes (SIGHASH_DEFAULT) or of 65 (the last byte is
\* the flag, which must be SIGHASH_ALL); the check is against the output key
\* of the address.
VerifyP2TR(message, scriptPubKey, witness, requireKind) ==
    IF ~isSingleKeyP2TRWitness(witness)
    THEN IF Len(witness) >= 2 THEN "UnsupportedAddress" ELSE requireKind
    ELSE LET sig == witness[1]
         IN IF sig.len = 64
            THEN IF SchnorrVerify(message, scriptPubKey, SIGHASH_DEFAULT, sig)
                 THEN "true" ELSE "false"
            ELSE IF sig.len = 65
            THEN IF sig.last # SIGHASH_ALL THEN "InvalidSighash"
                 ELSE IF SchnorrVerify(message, scriptPubKey, SIGHASH_ALL, sig)
                 THEN "true" ELSE "false"
            ELSE "InvalidSchnorrSignature"

\* Classification first, then the script, then the witness, then the variant's
\* own checks.
VerifyBIP322(address, message, signature, requireKind) ==
    LET variant == Classify(address)
        scriptPubKey == convertAdressToScriptPubkey(address)
        witness == Deserialize(signature)
    IN IF variant = "Invalid" THEN "InvalidAddress"
       ELSE IF variant \notin {"P2SH", "P2WPKH", "P2TR"} THEN "UnsupportedAddress"
       ELSE IF scriptPubKey.threw THEN "InvalidAddress"
       ELSE IF witness.threw THEN "MalformedWitness"
       ELSE IF variant = "P2TR"
       THEN VerifyP2TR(message, scriptPubKey.val, witness.val, requireKind)
       ELSE VerifyP2WPKH(address, message, scriptPubKey.val, witness.val,
                IF variant = "P2SH" THEN "p2sh-p2wpkh" ELSE "p2wpkh", requireKind)

\* A signature in the legacy wire format: 65 raw bytes led by a header byte of
\* the BIP-137 range.
IsLegacySignature(signature) ==
    /\ RawLength(signature) = 65
    /\ Header(signature) >= HeaderMin
    /\ Header(signature) <= HeaderMax

\* Which verifier a call with a valid address is handed to.
Dispatch(address, signature) ==
    IF isP2PKH(address) \/ IsLegacySignature(signature) THEN "legacy" ELSE "bip322"

\* Verifier.verifySignature: the address must decode on some network; then the
\* legacy or the BIP-322 verifier decides.
VerifySignature(address, message, signature, requireKind) ==
    IF ~isValidBitcoinAddress(address) THEN "InvalidAddress"
    ELSE IF Dispatch(address, signature) = "legacy"
    THEN VerifyLegacy(address, message, signature)
    ELSE VerifyBIP322(address, message, signature, requireKind)

-----------------------------------------------------------------------------
(* generateCompatibleSignatures (the tests' helper) *)

Abs(x) == IF x < 0 THEN -x ELSE x

\* generateCompatibleSignatures with i < end for i <= end.
generateCompatibleSignatures_ExclusiveEnd(base64Signature, start, end) ==
    LET initialRecId == Header(base64Signature)
        loop[i \in (start - 1)..(end - 1)] ==
            IF i < start THEN <<>>
            ELSE IF Abs(i - initialRecId) % 4 = 0
                 THEN Append(loop[i - 1], [base64Signature EXCEPT !.header = i])
                 ELSE loop[i - 1]
    IN loop[end - 1]

\* generateCompatibleSignatures with % 2 for % 4.
generateCompatibleSignatures_Mod2(base64Signature, start, end) ==
    LET initialRecId == Header(base64Signature)
        loop[i \in (start - 1)..end] ==
            IF i < start THEN <<>>
            ELSE IF Abs(i - initialRecId) % 2 = 0
                 THEN Append(loop[i - 1], [base64Signature EXCEPT !.header = i])
                 ELSE loop[i - 1]
    IN loop[end]

\* The signatures whose header i in start..end differs from the given one's by
\* a multiple of 4, in increasing order of i, each a copy with byte 0 replaced.
generateCompatibleSignatures(base64Signature, start, end) ==
    LET initialRecId == Header(base64Signature)
        loop[i \in (start - 1)..end] ==
            IF i < start THEN <<>>
            ELSE IF Abs(i - initialRecId) % 4 = 0
                 THEN Append(loop[i - 1], [base64Signature EXCEPT !.header = i])
                 ELSE loop[i - 1]
    IN loop[end]

-----------------------------------------------------------------------------
(* The inputs enumerated *)

\* The ten addresses of a key: P2PKH of both key encodings, P2SH-P2WPKH,
\* P2WPKH and P2TR of the compressed key, on mainnet and testnet.
OwnAddresses(k) ==
    {Base58Address(n.pubKeyHash, Hash160(key)) :
         n \in {Networks.bitcoin, Networks.testnet},
         key \in {CompressedKey(k), UncompressedKey(k)}}
    \cup {Base58Address(n.scriptHash, Hash160(WitnessProgramV0(Hash160(CompressedKey(k))))) :
              n \in {Networks.bitcoin, Networks.testnet}}
    \cup {Bech32Address(n.bech32, 0, Hash160(CompressedKey(k)), 20) :
              n \in {Networks.bitcoin, Networks.testnet}}
    \cup {Bech32Address(n.bech32, 1, TapTweak(XOnlyKey(k)), 32) :
              n \in {Networks.bitcoin, Networks.testnet}}

SupportedAddresses == UNION {OwnAddresses(k) : k \in Keys}

\* P2WSH addresses (the SHA-256 of a witness script), mainnet and testnet.
P2WSHAddresses ==
    {Bech32Address(n.bech32, 0, Sha256(WitnessProgramV0(Hash160(CompressedKey(1)))), 32) :
         n \in {Networks.bitcoin, Networks.testnet}}

\* Valid addresses of other kinds: regtest bech32, a witness version 2
\* program, a P2SH address of a script that is no P2WPKH program.
OtherValidAddresses ==
    {Bech32Address(Networks.regtest.bech32, 0, Hash160(CompressedKey(1)), 20),
     Bech32Address(Networks.regtest.bech32, 1, TapTweak(XOnlyKey(1)), 32),
     Bech32Address(Networks.bitcoin.bech32, 2, Sha256(CompressedKey(1)), 32),
     Base58Address(Networks.bitcoin.scriptHash, Hash160(Sha256(CompressedKey(1))))}

\* Strings that decode on no network: an address with one more character at
\* its end, the empty string, a string of another alphabet.
MalformedAddresses ==
    {AppendChar(a) : a \in {x \in OwnAddresses(1) \cup P2WSHAddresses : x.hrp # <<"t", "b">>}}
    \cup {JunkAddress(<<>>, 0), JunkAddress(<<"x">>, 12)}

Addresses ==
    SupportedAddresses \cup P2WSHAddresses \cup OtherValidAddresses \cup MalformedAddresses

\* Legacy signatures of every header 26..43, made under recovery id 0 or 1.
LegacySignatures ==
    {LegacySignature(h, k, m, rec) :
         h \in (HeaderMin - 1)..(HeaderMax + 1), k \in Keys, m \in Messages, rec \in {0, 1}}

\* <<length, flag signed under, last byte>> of the single items enumerated.
SchnorrShapes ==
    {<<64, ht, last>> : ht \in {SIGHASH_DEFAULT, SIGHASH_ALL}, last \in {0, 1, 2}}
    \cup {<<65, ht, last>> : ht \in {SIGHASH_DEFAULT, SIGHASH_ALL, SIGHASH_NONE},
                             last \in {SIGHASH_DEFAULT, SIGHASH_ALL, SIGHASH_NONE,
                                       SIGHASH_SINGLE, SIGHASH_ANYONECANPAY, 255}}
    \cup {<<63, SIGHASH_DEFAULT, last>> : last \in {1, 2}}
    \cup {<<66, SIGHASH_ALL, last>> : last \in {1, 255}}

SchnorrItems ==
    {SchnorrItem(k, m, sh[2], sh[1], sh[3]) : k \in Keys, m \in Messages, sh \in SchnorrShapes}

\* <<flag signed under, last byte>> of the ECDSA signature items enumerated.
EcdsaShapes ==
    {<<SIGHASH_ALL, last>> : last \in {SIGHASH_DEFAULT, SIGHASH_ALL, SIGHASH_NONE,
                                       SIGHASH_SINGLE, SIGHASH_ANYONECANPAY}}
    \cup {<<SIGHASH_NONE, SIGHASH_NONE>>, <<SIGHASH_NONE, SIGHASH_ALL>>}

EcdsaItems ==
    {EcdsaItem(k, m, kind, sh[1], sh[2]) :
         k \in Keys, m \in Messages, kind \in {"p2wpkh", "p2sh-p2wpkh"}, sh \in EcdsaShapes}

\* Second items: a compressed key, an uncompressed key, 33 bytes led by 0x04.
SecondItems ==
    {PubKeyItem(CompressedKey(k)) : k \in Keys}
    \cup {PubKeyItem(UncompressedKey(1)), Item(33, 4, 0, Body("pubkey", 1, 0, "", 0))}

RECURSIVE Pad(_, _)
\* A stack grown to n items by control blocks (a script-path spend).
Pad(witness, n) ==
    IF Len(witness) >= n THEN witness ELSE Pad(Append(witness, ControlBlockItem), n)

Witnesses ==
    {<<>>, <<EmptyItem>>}
    \cup {<<i>> : i \in SchnorrItems}
    \cup {<<i, j>> : i \in EcdsaItems, j \in SecondItems}
    \cup {Pad(w, n) : n \in 2..MaxItems,
                      w \in {<<SchnorrItem(1, 1, SIGHASH_DEFAULT, 64, 0)>>,
                             <<EcdsaItem(1, 1, "p2wpkh", SIGHASH_ALL, SIGHASH_ALL),
                               PubKeyItem(CompressedKey(1))>>}}

Signatures ==
    LegacySignatures \cup {WitnessSignature(w) : w \in Witnesses} \cup {GarbageSignature(10)}

-----------------------------------------------------------------------------
(* The state machine: one call of Verifier.verifySignature and the tests'     *)
(* steps around it                                                            *)

VARIABLES
    address,     \* the address the call is made with
    message,     \* the message the call is made with
    signature,   \* the signature the call is made with
    original,    \* the signature before a byte was appended to its item
    pc,          \* "call", "returned", "generated", "compared"
    path,        \* the verifier the call was handed to: "none", "legacy", "bip322"
    result,      \* "true", "false" or the kind of the error raised
    compat,      \* the output of generateCompatibleSignatures
    outs,        \* verifySignature's result for each signature of compat
    helper,      \* the helper called on its own: "none" or its name
    input,       \* the argument of that call
    output       \* what that call returned or raised

vars == <<address, message, signature, original, pc, path, result, compat, outs,
          helper, input, output>>

Init ==
    /\ address \in Addresses
    /\ message \in Messages
    /\ signature \in Signatures
    /\ original = signature
    /\ pc = "call"
    /\ path = "none"
    /\ result = "none"
    /\ compat = <<>>
    /\ outs = <<>>
    /\ helper = "none"
    /\ input = <<>>
    /\ output = <<>>

\* A write over the last byte where a byte was to be appended.
AppendByte_Overwrite(item, b) == [item EXCEPT !.last = b]

\* Buffer.concat([item, Buffer.from([b])]).
AppendByte(item, b) == [item EXCEPT !.len = @ + 1, !.last = b]

\* The tests' tampering: the only item of the witness gets one more byte and
\* the stack is serialized again.
AppendExtraByte ==
    /\ pc = "call"
    /\ original = signature
    /\ signature.form = "witness"
    /\ Len(signature.items) = 1
    /\ signature.items[1].len \in {64, 65}
    /\ \E b \in {SIGHASH_DEFAULT, SIGHASH_ALL, 255} :
           signature' = WitnessSignature(<<AppendByte(signature.items[1], b)>>)
    /\ UNCHANGED <<address, message, original, pc, path, result, compat, outs>>
    /\ UNCHANGED <<helper, input, output>>

\* Verifier.verifySignature(address, message, signature).
Verify ==
    /\ pc = "call"
    /\ \E requireKind \in RequireKinds :
           result' = VerifySignature(address, message, signature, requireKind)
    /\ path' = IF isValidBitcoinAddress(address) THEN Dispatch(address, signature)
                                                 ELSE "none"
    /\ pc' = "returned"
    /\ UNCHANGED <<address, message, signature, original, compat, outs>>
    /\ UNCHANGED <<helper, input, output>>

\* generateCompatibleSignatures(signature, 27, 42) on a 65-byte signature.
Generate ==
    /\ pc = "returned"
    /\ signature.form = "legacy"
    /\ compat' = generateCompatibleSignatures(signature, HeaderMin, HeaderMax)
    /\ pc' = "generated"
    /\ UNCHANGED <<address, message, signature, original, path, result, outs>>
    /\ UNCHANGED <<helper, input, output>>

\* The tests' loop: verifySignature on every generated signature.
VerifyCompatible ==
    /\ pc = "generated"
    /\ \E requireKind \in RequireKinds :
           outs' = [i \in 1..Len(compat) |->
                       VerifySignature(address, message, compat[i], requireKind)]
    /\ pc' = "compared"
    /\ UNCHANGED <<address, message, signature, original, path, result, compat>>
    /\ UNCHANGED <<helper, input, output>>

Next == AppendExtraByte \/ Verify \/ Generate \/ VerifyCompatible

Spec == Init /\ [][Next]_vars

-----------------------------------------------------------------------------
(* What an input is, read off its encoding (not off the code under check) *)

MainOrTest == {Networks.bitcoin.bech32, Networks.testnet.bech32}

\* A valid P2WPKH, P2WSH, P2TR address of mainnet or testnet.
IsP2WPKHAddress(a) ==
    a.enc = "bech32" /\ a.sum /\ a.hrp \in MainOrTest /\ a.ver = 0 /\ a.plen = 20
IsP2WSHAddress(a) ==
    a.enc = "bech32" /\ a.sum /\ a.hrp \in MainOrTest /\ a.ver = 0 /\ a.plen = 32
IsP2TRAddress(a) ==
    a.enc = "bech32m" /\ a.sum /\ a.hrp \in MainOrTest /\ a.ver = 1 /\ a.plen = 32
\* A valid base58check address with a script-hash or a key-hash version byte.
IsP2SHAddress(a) == a.enc = "base58" /\ a.sum /\ a.ver \in {5, 196}
IsP2PKHAddress(a) == a.enc = "base58" /\ a.sum /\ a.ver \in {0, 111}

\* The address decodes on none of mainnet, testnet, regtest.
DecodesNowhere(a) ==
    \A n \in {Networks.bitcoin, Networks.testnet, Networks.regtest} :
        ToOutputScript(a, n).threw

\* A legacy signature as a signer makes it: header in range, carrying the
\* recovery id of r, s.
WellFormedLegacy(s) ==
    /\ s.form = "legacy"
    /\ s.header \in HeaderMin..HeaderMax
    /\ RecIdOf(s.header) = s.body.ht

\* A P2WPKH witness as a signer makes it: signature under SIGHASH_ALL with its
\* flag byte, then the signer's compressed key.
WellFormedP2WPKH(s) ==
    /\ s.form = "witness"
    /\ Len(s.items) = 2
    /\ s.items[1].body.alg = "ecdsa"
    /\ s.items[1].body.ht = SIGHASH_ALL
    /\ s.items[1].last = SIGHASH_ALL
    /\ s.items[2] = PubKeyItem(CompressedKey(s.items[1].body.key))

\* A key-path P2TR witness as a signer makes it: 64 bytes under
\* SIGHASH_DEFAULT, or 65 bytes under SIGHASH_ALL ending in 0x01.
WellFormedP2TR(s) ==
    /\ s.form = "witness"
    /\ Len(s.items) = 1
    /\ s.items[1].body.alg = "schnorr"
    /\ \/ s.items[1].len = 64 /\ s.items[1].body.ht = SIGHASH_DEFAULT
       \/ /\ s.items[1].len = 65
          /\ s.items[1].body.ht = SIGHASH_ALL
          /\ s.items[1].last = SIGHASH_ALL

WellFormed(s) == WellFormedLegacy(s) \/ WellFormedP2WPKH(s) \/ WellFormedP2TR(s)

\* The key and the message a well-formed signature was made with.
SignerOf(s) == IF s.form = "legacy" THEN s.body.key ELSE s.items[1].body.key
SignedMessage(s) == IF s.form = "legacy" THEN s.body.msg ELSE s.items[1].body.msg

\* The supported addresses of the type a well-formed signature is for: any
\* type for a legacy signature, the signed script's type for a witness.
SameTypeAddresses(s) ==
    IF s.form = "legacy" THEN SupportedAddresses
    ELSE IF Len(s.items) = 1 THEN {a \in SupportedAddresses : IsP2TRAddress(a)}
    ELSE IF s.items[1].body.kind = "p2wpkh"
    THEN {a \in SupportedAddresses : IsP2WPKHAddress(a)}
    ELSE {a \in SupportedAddresses : IsP2SHAddress(a)}

\* The signature was made by the key of this address, for its type and for
\* this message.
Matches(a, m, s) ==
    a \in OwnAddresses(SignerOf(s)) \cap SameTypeAddresses(s) /\ m = SignedMessage(s)

\* The decoded witness has the P2WPKH shape.
HasP2WPKHShape(s) ==
    /\ s.form = "witness"
    /\ Len(s.items) = 2
    /\ s.items[2].len = 33
    /\ s.items[2].first \in {2, 3}

-----------------------------------------------------------------------------
(* Claims *)

\* C1: with a valid, supported address and a well-formed signature that does
\* not match (another message than the signed one, or another address of the
\* same type than the signer's), verifySignature returns false; it raises
\* nothing.
C1_MismatchReturnsFalse ==
    (/\ pc = "returned"
     /\ WellFormed(signature)
     /\ address \in SameTypeAddresses(signature)
     /\ ~Matches(address, message, signature))
    => result = "false"

\* C1 witness: a P2WPKH witness checked against the signer's own address with
\* a message it was not made for came back false.
C1_Witness ==
    /\ pc = "returned"
    /\ WellFormedP2WPKH(signature)
    /\ address \in OwnAddresses(SignerOf(signature)) \cap SameTypeAddresses(signature)
    /\ message # SignedMessage(signature)
    /\ result = "false"

\* C2: an address that decodes on none of mainnet, testnet and regtest makes
\* verifySignature raise InvalidAddress, whatever the message and the
\* signature are.
C2_UndecodableAddressRaises ==
    (pc = "returned" /\ DecodesNowhere(address)) => result = "InvalidAddress"

\* C2 witness: a P2WPKH address with one more character, called with the
\* witness its signer made for the message, raised InvalidAddress.
C2_Witness ==
    /\ pc = "returned"
    /\ \E a \in OwnAddresses(1) :
           /\ address = AppendChar(a)
           /\ WellFormedP2WPKH(signature)
           /\ Matches(a, message, signature)
    /\ result = "InvalidAddress"

\* C3: BIP-322 verification of a valid P2WSH address raises
\* UnsupportedAddress for every message and signature, whatever the decoded
\* witness looks like.
C3_P2WSHUnsupported ==
    (pc = "returned" /\ path = "bip322" /\ IsP2WSHAddress(address))
    => result = "UnsupportedAddress"

\* C3 witness: a P2WSH address with a witness of the P2WPKH shape raised
\* UnsupportedAddress.
C3_Witness ==
    /\ pc = "returned"
    /\ path = "bip322"
    /\ IsP2WSHAddress(address)
    /\ HasP2WPKHShape(signature)
    /\ result = "UnsupportedAddress"

\* C4: BIP-322 verification of a valid P2TR address with a witness of two or
\* more items raises UnsupportedAddress, also when the two items have the
\* P2WPKH shape.
C4_ScriptSpendUnsupported ==
    (/\ pc = "returned"
     /\ path = "bip322"
     /\ IsP2TRAddress(address)
     /\ signature.form = "witness"
     /\ Len(signature.items) >= 2)
    => result = "UnsupportedAddress"

\* C4 witness: a P2TR address with a two-item witness of the P2WPKH shape
\* raised UnsupportedAddress.
C4_Witness ==
    /\ pc = "returned"
    /\ path = "bip322"
    /\ IsP2TRAddress(address)
    /\ HasP2WPKHShape(signature)
    /\ result = "UnsupportedAddress"

\* The single item of the witness, when the witness has exactly one.
HasSingleItem(s) == s.form = "witness" /\ Len(s.items) = 1
OnlyItem(s) == s.items[1]

\* The item's first 64 bytes are a Schnorr signature by the key of the P2TR
\* address a, over message m, under flag ht.
SchnorrSignedFor(item, a, m, ht) ==
    /\ item.body.alg = "schnorr"
    /\ a.prog = TapTweak(XOnlyKey(item.body.key))
    /\ item.body.msg = m
    /\ item.body.ht = ht

C6_SchnorrLength ==
    (/\ pc = "returned"
     /\ path = "bip322"
     /\ IsP2TRAddress(address)
     /\ HasSingleItem(signature))
    => /\ OnlyItem(signature).len \notin {64, 65} => result = "InvalidSchnorrSignature"
       /\ OnlyItem(signature).len = 64
          => /\ result \in {"true", "false"}
             /\ result = "true" <=> SchnorrSignedFor(OnlyItem(signature), address,
                                                     message, SIGHASH_DEFAULT)

\* C6 witness: a 66-byte item ending in 0x01 raised InvalidSchnorrSignature.
C6_Witness ==
    /\ pc = "returned"
    /\ path = "bip322"
    /\ IsP2TRAddress(address)
    /\ HasSingleItem(signature)
    /\ OnlyItem(signature).len = 66
    /\ OnlyItem(signature).last = SIGHASH_ALL
    /\ result = "InvalidSchnorrSignature"

\* The call was made with the witness whose only item is the original's with
\* a byte appended.
ByteAppended ==
    /\ original # signature
    /\ HasSingleItem(original)
    /\ HasSingleItem(signature)

C9_HeaderClassEquivalence ==
    (/\ pc = "compared"
     /\ signature.form = "legacy"
     /\ signature.header \in HeaderMin..HeaderMax)
    => \A h \in HeaderMin..HeaderMax :
           (h - signature.header) % 4 = 0
           => \E i \in 1..Len(compat) :
                  /\ compat[i] = [signature EXCEPT !.header = h]
                  /\ outs[i] = result

\* C9 witness: a signature whose header names an uncompressed P2PKH key
\* (27..30) verified true against its signer's P2TR address, and so did its
\* copy with a header of the P2WPKH class (39..42).
C9_Witness ==
    /\ pc = "compared"
    /\ WellFormedLegacy(signature)
    /\ signature.header \in 27..30
    /\ IsP2TRAddress(address)
    /\ Matches(address, message, signature)
    /\ result = "true"
    /\ \E i \in 1..Len(compat) : compat[i].header \in 39..42 /\ outs[i] = "true"

\* C10: legacy verification of a signature carrying its own recovery id
\* returns true exactly when the message is the signed one and the address is
\* one of the ten of the signer's key (P2PKH of the compressed and of the
\* uncompressed key, P2SH-P2WPKH, P2WPKH and P2TR of the compressed key, on
\* mainnet and testnet), and false for every other valid address.
C10_LegacyDerivedSet ==
    (/\ pc = "returned"
     /\ path = "legacy"
     /\ WellFormedLegacy(signature))
    => /\ Cardinality(OwnAddresses(SignerOf(signature))) = 10
       /\ result \in {"true", "false"}
       /\ result = "true" <=> /\ message = SignedMessage(signature)
                              /\ address \in OwnAddresses(SignerOf(signature))

\* C10 witness: a legacy signature verified true against the signer's testnet
\* P2WPKH address.
C10_Witness ==
    /\ pc = "returned"
    /\ path = "legacy"
    /\ WellFormedLegacy(signature)
    /\ IsP2WPKHAddress(address)
    /\ address.hrp = Networks.testnet.bech32
    /\ address \in OwnAddresses(SignerOf(signature))
    /\ message = SignedMessage(signature)
    /\ result = "true"

\* The decoded signature is not 65 bytes, or its first byte is outside 27..42.
NotLegacyFormat(s) ==
    RawLength(s) # 65 \/ Header(s) < HeaderMin \/ Header(s) > HeaderMax

\* C11: the legacy verifier (every call with a valid P2PKH address goes to it)
\* raises InvalidSignature for every signature that is not 65 bytes and for
\* every 65-byte one whose header is outside 27..42, whoever made it and for
\* whatever message; it does not return false.
C11_LegacyInvalidSignature ==
    (/\ pc = "returned"
     /\ path = "legacy" \/ IsP2PKHAddress(address)
     /\ NotLegacyFormat(signature))
    => result = "InvalidSignature"

\* C11 witness: the signer's own testnet P2PKH address and message, with r, s
\* of the signer under header 43: InvalidSignature was raised.
C11_Witness ==
    /\ pc = "returned"
    /\ path = "legacy"
    /\ IsP2PKHAddress(address)
    /\ address.ver = Networks.testnet.pubKeyHash
    /\ signature.form = "legacy"
    /\ signature.header = HeaderMax + 1
    /\ address \in OwnAddresses(SignerOf(signature))
    /\ message = SignedMessage(signature)
    /\ result = "InvalidSignature"

-----------------------------------------------------------------------------
(* The witness codec on bytes (Witness.serialize / Witness.deserialize)      *)

\* Longest buffer of a stack that is serialized, and the number of buffers of
\* the longest stack of empty buffers: both reach the 3-byte CompactSize.
MaxBufLen == 253
MaxCount == 253

\* A buffer of n bytes: seed + 1, seed + 2, ... modulo 256.
Buf(n, seed) == [i \in 1..n |-> (seed + i) % 256]

\* CompactSize that always writes one byte.
CompactSize_OneByte(n) == <<n % 256>>

\* CompactSize(n): one byte below 253, else 0xFD and 2 bytes, else 0xFE and 4
\* bytes, little-endian.
CompactSize(n) ==
    IF n < 253 THEN <<n>>
    ELSE IF n < 65536 THEN <<253, n % 256, n \div 256>>
    ELSE <<254, n % 256, (n \div 256) % 256, (n \div 65536) % 256, n \div 16777216>>

RECURSIVE EncodeItems(_)
\* CompactSize(len(item)) || item, for each item in order (the stack is
\* halved, so that long stacks are computed at a small depth).
EncodeItems(items) ==
    IF items = <<>> THEN <<>>
    ELSE IF Len(items) = 1 THEN CompactSize(Len(items[1])) \o items[1]
    ELSE LET h == Len(items) \div 2
         IN EncodeItems(SubSeq(items, 1, h)) \o EncodeItems(SubSeq(items, h + 1, Len(items)))

\* The bytes before base64: CompactSize(count) and the items.
WitnessBytes(items) == CompactSize(Len(items)) \o EncodeItems(items)

\* The 4 characters of 3 bytes (b2, b3 are -1 past the end): each character is
\* its 6-bit value, 64 stands for the padding '='.
Base64Group(b1, b2, b3) ==
    <<b1 \div 4,
      (b1 % 4) * 16 + (IF b2 < 0 THEN 0 ELSE b2 \div 16),
      IF b2 < 0 THEN 64 ELSE (b2 % 16) * 4 + (IF b3 < 0 THEN 0 ELSE b3 \div 64),
      IF b3 < 0 THEN 64 ELSE b3 % 64>>

RECURSIVE Base64Encode(_)
\* buffer.toString('base64'): 4 characters for every 3 bytes, the last group
\* padded.
Base64Encode(bytes) ==
    LET n == Len(bytes)
        h == 3 * ((n \div 3 + 1) \div 2)
    IN IF n = 0 THEN <<>>
       ELSE IF n <= 3
       THEN Base64Group(bytes[1], IF n >= 2 THEN bytes[2] ELSE -1,
                        IF n >= 3 THEN bytes[3] ELSE -1)
       ELSE Base64Encode(SubSeq(bytes, 1, h)) \o Base64Encode(SubSeq(bytes, h + 1, n))

\* The bytes of 4 characters: 3, or fewer when the group is padded.
Base64Ungroup(c) ==
    <<c[1] * 4 + c[2] \div 16>>
    \o (IF c[3] = 64 THEN <<>> ELSE <<(c[2] % 16) * 16 + c[3] \div 4>>)
    \o (IF c[3] = 64 \/ c[4] = 64 THEN <<>> ELSE <<(c[3] % 4) * 64 + c[4]>>)

RECURSIVE Base64Decode(_)
\* Buffer.from(text, 'base64'), on whole groups of 4 characters.
Base64Decode(chars) ==
    LET g == Len(chars) \div 4
    IN IF g = 0 THEN <<>>
       ELSE IF g = 1 THEN Base64Ungroup(chars)
       ELSE Base64Decode(SubSeq(chars, 1, 4 * (g \div 2)))
            \o Base64Decode(SubSeq(chars, 4 * (g \div 2) + 1, 4 * g))

\* Witness.serialize(items).
WitnessSerialize(items) == Base64Encode(WitnessBytes(items))

\* A CompactSize read at position pos: its value and the position after it.
\* A value written longer than it needs to be, a prefix cut short and the
\* 8-byte form (longer than any buffer) are refused.
ReadCompactSize(bytes, pos) ==
    LET have(k) == pos + k <= Len(bytes)
        b(k) == bytes[pos + k]
    IN IF ~have(0) THEN Throw("MalformedWitness")
       ELSE IF b(0) < 253 THEN Value([n |-> b(0), next |-> pos + 1])
       ELSE IF b(0) = 253
       THEN IF ~have(2) \/ b(1) + 256 * b(2) < 253 THEN Throw("MalformedWitness")
            ELSE Value([n |-> b(1) + 256 * b(2), next |-> pos + 3])
       ELSE IF b(0) = 254
       THEN IF ~have(4) \/ b(4) >= 128 \/ (b(3) = 0 /\ b(4) = 0)
            THEN Throw("MalformedWitness")
            ELSE Value([n |-> b(1) + 256 * b(2) + 65536 * b(3) + 16777216 * b(4),
                        next |-> pos + 5])
       ELSE Throw("MalformedWitness")

RECURSIVE ReadItems(_, _, _)
\* count length-prefixed items from position pos, and the position after
\* them; no item may reach past the end.  (The count is halved, so that long
\* stacks are read at a small depth.)
ReadItems(bytes, pos, count) ==
    IF count = 0 THEN Value([items |-> <<>>, next |-> pos])
    ELSE IF count = 1
    THEN LET size == ReadCompactSize(bytes, pos)
         IN IF size.threw THEN size
            ELSE IF size.val.next + size.val.n - 1 > Len(bytes)
            THEN Throw("MalformedWitness")
            ELSE Value([items |-> <<SubSeq(bytes, size.val.next,
                                           size.val.next + size.val.n - 1)>>,
                        next |-> size.val.next + size.val.n])
    ELSE LET left == ReadItems(bytes, pos, count \div 2)
         IN IF left.threw THEN left
            ELSE LET right == ReadItems(bytes, left.val.next, count - count \div 2)
                 IN IF right.threw THEN right
                    ELSE Value([items |-> left.val.items \o right.val.items,
                                next |-> right.val.next])

\* Witness.deserialize(text): the count, the items, and nothing after them.
WitnessDeserialize(text) ==
    LET bytes == Base64Decode(text)
        count == ReadCompactSize(bytes, 1)
    IN IF count.threw THEN count
       ELSE LET read == ReadItems(bytes, count.val.next, count.val.n)
            IN IF read.threw THEN read
               ELSE IF read.val.next # Len(bytes) + 1 THEN Throw("MalformedWitness")
               ELSE Value(read.val.items)

-----------------------------------------------------------------------------
(* The helpers called on their own: one call of one helper on one input      *)

\* Address strings: those of the calls of verifySignature, every valid address
\* with one more character, strings of no encoding under every prefix the
\* code looks at and of the lengths it looks at, and bech32 strings whose
\* checksum holds but whose content no network accepts.
HelperHeads ==
    {<<>>, <<"1">>, <<"m">>, <<"n">>, <<"3">>, <<"2">>, <<"x">>,
     <<"b", "c", "1">>, <<"b", "c", "1", "q">>, <<"t", "b", "1", "q">>,
     <<"b", "c", "1", "p">>, <<"t", "b", "1", "p">>, <<"b", "c", "r", "t">>,
     <<"B", "C", "1", "Q">>}

AddressStrings ==
    Addresses
    \cup {AppendChar(a) : a \in SupportedAddresses \cup P2WSHAddresses \cup OtherValidAddresses}
    \cup UNION {{JunkAddress(h, n) : n \in {Len(h), 34, 42, 62}} : h \in HelperHeads}
    \cup {[Bech32Address(n.bech32, 0, Hash160(CompressedKey(1)), 20) EXCEPT !.enc = "bech32m"] :
              n \in {Networks.bitcoin, Networks.testnet}}
    \cup {[Bech32Address(n.bech32, 1, TapTweak(XOnlyKey(1)), 32) EXCEPT !.enc = "bech32"] :
              n \in {Networks.bitcoin, Networks.testnet}}
    \cup {Bech32Address(n.bech32, 0, Sha256(CompressedKey(1)), 25) :
              n \in {Networks.bitcoin, Networks.testnet}}
    \cup {Bech32Address(n.bech32, 1, Hash160(CompressedKey(1)), 20) :
              n \in {Networks.bitcoin, Networks.testnet}}

\* Witness stacks: those of the calls of verifySignature, and stacks whose
\* second item misses the public key's length or lead byte by one.
WitnessStacks ==
    Witnesses
    \cup {<<EmptyItem, second>> :
              second \in {EmptyItem, Item(32, 2, 0, NoBody), Item(34, 3, 0, NoBody),
                          Item(33, 1, 0, NoBody), Item(33, 2, 0, NoBody),
                          Item(33, 3, 0, NoBody)}}
    \cup {<<PubKeyItem(CompressedKey(k)), EmptyItem>> : k \in Keys}
    \cup {<<PubKeyItem(CompressedKey(k))>> : k \in Keys}

\* Public keys and address types handed to convertPubKeyIntoAddress.
KeyBuffers ==
    {CompressedKey(k) : k \in Keys} \cup {UncompressedKey(k) : k \in Keys}
    \cup {XOnlyKey(k) : k \in Keys}
AddressTypes == {"p2pkh", "p2sh-p2wpkh", "p2wpkh", "p2tr", "p2wsh", "P2TR", ""}

\* Byte buffers of the lengths around the CompactSize boundary, and stacks of
\* them: every stack of up to 2 buffers, every stack of up to MaxItems short
\* buffers, and stacks of empty buffers up to MaxCount.
Buffers ==
    {Buf(n, seed) : n \in {0, 1, 2, MaxBufLen - 1, MaxBufLen}, seed \in {0, 254}}
ShortBuffers == {Buf(n, 254) : n \in 0..2}
RECURSIVE StacksOf(_, _)
StacksOf(bufs, n) ==
    IF n = 0 THEN {<<>>}
    ELSE LET shorter == StacksOf(bufs, n - 1)
         IN shorter \cup {Append(st, b) : st \in {x \in shorter : Len(x) = n - 1}, b \in bufs}
ByteStacks ==
    StacksOf(Buffers, 2) \cup StacksOf(ShortBuffers, MaxItems)
    \cup {[i \in 1..n |-> <<>>] : n \in {MaxCount - 1, MaxCount}}

\* BIP-322 message hash: TaggedHash("BIP0322-signed-message", message).
MessageHash(msg) == [fn |-> "taggedHash", tag |-> "BIP0322-signed-message", of |-> msg]

\* The null outpoint: 32 zero bytes and index 0xFFFFFFFF, all 32 bits set.
ZeroHash == [fn |-> "zero", of |-> 32]
NullIndex == -1

\* No internal public key given.
NoKey == [len |-> 0, first |-> 0, id |-> 0]

\* A transaction's id: the hash of its version, inputs, outputs and locktime.
TxId(tx) == [fn |-> "txid", of |-> tx]

\* BIP322.buildToSpendTx: version 0, locktime 0; one input spending the null
\* outpoint with scriptSig OP_0 PUSH32(message hash) and sequence 0; one
\* output of value 0 locked by scriptPubKey.
buildToSpendTx(msg, scriptPubKey) ==
    [version |-> 0,
     locktime |-> 0,
     ins |-> <<[hash |-> ZeroHash, index |-> NullIndex, sequence |-> 0,
                scriptSig |-> <<"OP_0", MessageHash(msg)>>]>>,
     outs |-> <<[value |-> 0, script |-> scriptPubKey]>>]

\* buildToSignTx whose input spends output 1.
buildToSignTx_SpendsOutputOne(toSpendTxId, spendScript, isScriptHashSpend, internalPubKey) ==
    [version |-> 0,
     locktime |-> 0,
     ins |-> <<[hash |-> toSpendTxId, index |-> 1, sequence |-> 0,
                scriptSig |-> IF isScriptHashSpend THEN <<spendScript>> ELSE <<>>,
                witnessScript |-> spendScript,
                tapInternalKey |-> internalPubKey]>>,
     outs |-> <<[value |-> 0, script |-> "OP_RETURN"]>>]

\* BIP322.buildToSignTx: version 0, locktime 0; one input spending output 0
\* of toSpendTxId with sequence 0, whose scriptSig pushes the redeem script
\* for a script-hash spend and is empty otherwise; one output of value 0
\* with the script OP_RETURN.
buildToSignTx(toSpendTxId, spendScript, isScriptHashSpend, internalPubKey) ==
    [version |-> 0,
     locktime |-> 0,
     ins |-> <<[hash |-> toSpendTxId, index |-> 0, sequence |-> 0,
                scriptSig |-> IF isScriptHashSpend THEN <<spendScript>> ELSE <<>>,
                witnessScript |-> spendScript,
                tapInternalKey |-> internalPubKey]>>,
     outs |-> <<[value |-> 0, script |-> "OP_RETURN"]>>]

\* The arguments of the two builders as the signing code passes them, for
\* P2WPKH, P2SH-P2WPKH (the redeem script, a script-hash spend) and P2TR (the
\* internal key).
SpendPlans ==
    UNION {{[message |-> m, scriptPubKey |-> P2WPKHScript(Hash160(CompressedKey(k))),
             spendScript |-> P2WPKHScript(Hash160(CompressedKey(k))),
             isScriptHashSpend |-> FALSE, internalPubKey |-> NoKey],
            [message |-> m,
             scriptPubKey |-> P2SHScript(Hash160(WitnessProgramV0(Hash160(CompressedKey(k))))),
             spendScript |-> P2WPKHScript(Hash160(CompressedKey(k))),
             isScriptHashSpend |-> TRUE, internalPubKey |-> NoKey],
            [message |-> m, scriptPubKey |-> P2TRScript(TapTweak(XOnlyKey(k))),
             spendScript |-> P2TRScript(TapTweak(XOnlyKey(k))),
             isScriptHashSpend |-> FALSE, internalPubKey |-> XOnlyKey(k)]} :
           m \in Messages, k \in Keys}

HelperInputs ==
    {[kind |-> "address", arg |-> a] : a \in AddressStrings}
    \cup {[kind |-> "witness", arg |-> w] : w \in WitnessStacks}
    \cup {[kind |-> "key", arg |-> <<k, t>>] : k \in KeyBuffers, t \in AddressTypes}
    \cup {[kind |-> "items", arg |-> st] : st \in ByteStacks}
    \cup {[kind |-> "plan", arg |-> p] : p \in SpendPlans}

\* No call of verifySignature is under way; one input is given.
HelperInit ==
    /\ address = JunkAddress(<<>>, 0)
    /\ message = 1
    /\ signature = GarbageSignature(10)
    /\ original = signature
    /\ pc = "helper"
    /\ path = "none"
    /\ result = "none"
    /\ compat = <<>>
    /\ outs = <<>>
    /\ helper = "none"
    /\ input \in HelperInputs
    /\ output = <<>>

\* The call of the helper `name` on an input of kind `kind` ended with `out`.
Returned(name, kind, out) ==
    /\ helper = "none"
    /\ input.kind = kind
    /\ helper' = name
    /\ output' = out
    /\ UNCHANGED <<address, message, signature, original, pc, path, result, compat,
                   outs, input>>

CallIsP2PKH == Returned("isP2PKH", "address", Value(isP2PKH(input.arg)))
CallIsP2SH == Returned("isP2SH", "address", Value(isP2SH(input.arg)))
CallIsP2TR == Returned("isP2TR", "address", Value(isP2TR(input.arg)))
CallIsP2WPKH == Returned("isP2WPKH", "address", isP2WPKH(input.arg))
CallIsValidBitcoinAddress ==
    Returned("isValidBitcoinAddress", "address", Value(isValidBitcoinAddress(input.arg)))
CallConvertAdressToScriptPubkey ==
    Returned("convertAdressToScriptPubkey", "address", convertAdressToScriptPubkey(input.arg))
CallIsP2WPKHWitness ==
    Returned("isP2WPKHWitness", "witness", Value(isP2WPKHWitness(input.arg)))
CallIsSingleKeyP2TRWitness ==
    Returned("isSingleKeyP2TRWitness", "witness", Value(isSingleKeyP2TRWitness(input.arg)))
CallConvertPubKeyIntoAddress ==
    Returned("convertPubKeyIntoAddress", "key",
             convertPubKeyIntoAddress(input.arg[1], input.arg[2]))
CallSerialize == Returned("serialize", "items", WitnessSerialize(input.arg))

\* Witness.deserialize on what Witness.serialize returned.
CallDeserialize ==
    /\ helper = "serialize"
    /\ helper' = "deserialize"
    /\ output' = WitnessDeserialize(output)
    /\ UNCHANGED <<address, message, signature, original, pc, path, result, compat,
                   outs, input>>

CallBuildToSpendTx ==
    Returned("buildToSpendTx", "plan",
             Value(buildToSpendTx(input.arg.message, input.arg.scriptPubKey)))

\* BIP322.buildToSignTx on the id of the transaction buildToSpendTx returned.
CallBuildToSignTx ==
    /\ helper = "buildToSpendTx"
    /\ helper' = "buildToSignTx"
    /\ output' = Value(buildToSignTx(TxId(output.val), input.arg.spendScript,
                                     input.arg.isScriptHashSpend,
                                     input.arg.internalPubKey))
    /\ UNCHANGED <<address, message, signature, original, pc, path, result, compat,
                   outs, input>>

HelperNext ==
    \/ CallIsP2PKH \/ CallIsP2SH \/ CallIsP2TR \/ CallIsP2WPKH
    \/ CallIsValidBitcoinAddress \/ CallConvertAdressToScriptPubkey
    \/ CallIsP2WPKHWitness \/ CallIsSingleKeyP2TRWitness
    \/ CallConvertPubKeyIntoAddress
    \/ CallSerialize \/ CallDeserialize
    \/ CallBuildToSpendTx \/ CallBuildToSignTx

HelperSpec == HelperInit /\ [][HelperNext]_vars

\* C12: Witness.deserialize(Witness.serialize(items)) returns items, with the
\* same count, order and contents, for every stack of buffers: the empty
\* stack, stacks with empty buffers, buffers and stacks long enough for the
\* 3-byte CompactSize.
C12_WitnessRoundTrip ==
    helper = "deserialize"
    => /\ ~output.threw
       /\ Len(output.val) = Len(input.arg)
       /\ output.val = input.arg

\* C12 witness: a stack of an empty buffer and a buffer of MaxBufLen bytes came
\* back as it was.
C12_Witness ==
    /\ helper = "deserialize"
    /\ Len(input.arg) = 2
    /\ input.arg[1] = <<>>
    /\ Len(input.arg[2]) = MaxBufLen
    /\ ~output.threw
    /\ output.val = input.arg

-----------------------------------------------------------------------------
(* The Signer *)

\* The address types a signature can be asked for.
SignerTypes == {"p2pkh", "p2sh-p2wpkh", "p2wpkh", "p2tr"}

\* sign(privateKey, message, addressType): what the Signer may return.  P2PKH:
\* a 65-byte legacy signature whose header carries the recovery id of r, s,
\* with or without the compressed-key flag.  P2SH-P2WPKH and P2WPKH: the
\* witness <signature under SIGHASH_ALL || 0x01, compressed public key>, the
\* signature over the toSign transaction of that address type.  P2TR: the
\* witness of one Schnorr signature by the tweaked key, 64 bytes under
\* SIGHASH_DEFAULT or 65 bytes under SIGHASH_ALL.
Sign(k, m, addressType) ==
    CASE addressType = "p2pkh" ->
           {LegacySignature(HeaderMin + flag + rec, k, m, rec) : flag \in {0, 4}, rec \in {0, 1}}
      [] addressType \in {"p2sh-p2wpkh", "p2wpkh"} ->
           {WitnessSignature(<<EcdsaItem(k, m, addressType, SIGHASH_ALL, SIGHASH_ALL),
                               PubKeyItem(CompressedKey(k))>>)}
      [] OTHER ->
           {WitnessSignature(<<SchnorrItem(k, m, SIGHASH_DEFAULT, 64, last)>>) :
                last \in {0, 1, 2}}
           \cup {WitnessSignature(<<SchnorrItem(k, m, SIGHASH_ALL, 65, SIGHASH_ALL)>>)}

\* The mainnet and the testnet address of a key for an address type.
AddressesOf(k, addressType) ==
    {a \in OwnAddresses(k) :
        CASE addressType = "p2pkh" -> IsP2PKHAddress(a)
          [] addressType = "p2sh-p2wpkh" -> IsP2SHAddress(a)
          [] addressType = "p2wpkh" -> IsP2WPKHAddress(a)
          [] OTHER -> IsP2TRAddress(a)}

-----------------------------------------------------------------------------
(* Claims about the helpers of Address *)

\* The string starts with one of these character sequences.
StartsWith(a, prefixes) ==
    \E p \in prefixes : Len(a.head) >= Len(p) /\ SubSeq(a.head, 1, Len(p)) = p

\* The helper returned this boolean (and raised nothing).
ReturnedBool(b) == ~output.threw /\ output.val = b

DecodedScripts(a) ==
    {ToOutputScript(a, n).val :
         n \in {x \in {Networks.bitcoin, Networks.testnet, Networks.regtest} :
                    ~ToOutputScript(a, x).threw}}

SegwitV0Prefixes == {<<"b", "c", "1", "q">>, <<"t", "b", "1", "q">>}

\* C15: for an address with prefix 'bc1q' or 'tb1q' that decodes, isP2WPKH is
\* true when the decoded scriptPubKey is 22 bytes long and false when it is 34
\* bytes long, and the script has one of the two lengths; for an address
\* without the prefix isP2WPKH is false, whether or not it decodes.
C15_IsP2WPKH ==
    helper = "isP2WPKH"
    => /\ (StartsWith(input.arg, SegwitV0Prefixes) /\ DecodedScripts(input.arg) # {})
          => \A script \in DecodedScripts(input.arg) :
                 /\ script.byteLength \in {22, 34}
                 /\ ReturnedBool(script.byteLength = 22)
       /\ ~StartsWith(input.arg, SegwitV0Prefixes) => ReturnedBool(FALSE)

\* C15 witness: isP2WPKH answered false for a valid testnet P2WSH address.
C15_Witness ==
    /\ helper = "isP2WPKH"
    /\ IsP2WSHAddress(input.arg)
    /\ input.arg.hrp = Networks.testnet.bech32
    /\ ReturnedBool(FALSE)

\* C16: isP2WPKHWitness(w) is true exactly when w has 2 items and the second
\* is 33 bytes long with first byte 0x02 or 0x03, whatever the first item is;
\* isSingleKeyP2TRWitness(w) is true exactly when w has 1 item, of any length,
\* the empty item included.
C16_WitnessShapes ==
    /\ helper = "isP2WPKHWitness"
       => ReturnedBool(/\ Len(input.arg) = 2
                       /\ input.arg[2].len = 33
                       /\ input.arg[2].first \in {2, 3})
    /\ helper = "isSingleKeyP2TRWitness" => ReturnedBool(Len(input.arg) = 1)
    /\ (helper = "isSingleKeyP2TRWitness" /\ input.arg = <<EmptyItem>>)
       => ReturnedBool(TRUE)

\* C16 witness: isP2WPKHWitness answered true for an empty first item followed
\* by 33 bytes led by 0x03.
C16_Witness ==
    /\ helper = "isP2WPKHWitness"
    /\ Len(input.arg) = 2
    /\ input.arg[1] = EmptyItem
    /\ input.arg[2].len = 33
    /\ input.arg[2].first = 3
    /\ ReturnedBool(TRUE)

\* C17: isValidBitcoinAddress returns true when the string decodes on
\* mainnet, on testnet or on regtest and false when it decodes on none; a
\* failure on an earlier network does not keep a later one from deciding, and
\* no string makes it raise.
C17_IsValidBitcoinAddress ==
    helper = "isValidBitcoinAddress"
    => /\ ReturnedBool(DecodedScripts(input.arg) # {})
       /\ \A n \in {Networks.bitcoin, Networks.testnet, Networks.regtest} :
              ~ToOutputScript(input.arg, n).threw => ReturnedBool(TRUE)

\* C17 witness: an address that fails on mainnet and on testnet and decodes on
\* regtest was answered true.
C17_Witness ==
    /\ helper = "isValidBitcoinAddress"
    /\ ToOutputScript(input.arg, Networks.bitcoin).threw
    /\ ToOutputScript(input.arg, Networks.testnet).threw
    /\ ~ToOutputScript(input.arg, Networks.regtest).threw
    /\ ReturnedBool(TRUE)

\* The string takes one of the five branches of convertAdressToScriptPubkey
\* that hand it to a payment of bitcoinjs-lib.
TakesPaymentBranch(a) ==
    \/ StartsWith(a, {<<"1">>, <<"m">>, <<"n">>, <<"3">>, <<"2">>})
    \/ StartsWith(a, SegwitV0Prefixes) /\ a.len \in {42, 62}
    \/ StartsWith(a, {<<"b", "c", "1", "p">>, <<"t", "b", "1", "p">>}) /\ a.len = 62

\* C18 as claimed: for an address that decodes on no network,
\* convertAdressToScriptPubkey raises the InvalidAddress error.
C18_Claimed ==
    (helper = "convertAdressToScriptPubkey" /\ DecodesNowhere(input.arg))
    => output.threw /\ output.val = "InvalidAddress"

\* C18 as amended: for an address that decodes on no network,
\* convertAdressToScriptPubkey raises and returns neither a script nor
\* undefined; what it raises is the decoding error of the payment when the
\* string takes one of the five prefix branches, and "Unknown address type"
\* otherwise; it is never the InvalidAddress error.
C18_ConvertRaises ==
    (helper = "convertAdressToScriptPubkey" /\ DecodesNowhere(input.arg))
    => /\ output.threw
       /\ output.val = (IF TakesPaymentBranch(input.arg) THEN "TypeError"
                                                        ELSE "Unknown address type")

\* C18 witness: a mainnet P2WPKH address with one more character (43
\* characters under 'bc1q') raised "Unknown address type".
C18_Witness ==
    /\ helper = "convertAdressToScriptPubkey"
    /\ \E a \in OwnAddresses(1) : IsP2WPKHAddress(a) /\ input.arg = AppendChar(a)
    /\ input.arg.head = <<"b", "c", "1", "q">>
    /\ output.threw
    /\ output.val = "Unknown address type"

\* The four address types convertPubKeyIntoAddress knows.
SupportedTypes == {"p2pkh", "p2sh-p2wpkh", "p2wpkh", "p2tr"}

\* The internal key a P2TR address is derived from: bytes 1..32 of a 33-byte
\* key, the key itself at any other length.
InternalKeyOf(key) == IF key.len = 33 THEN XOnlyKey(key.id) ELSE key

\* The payment of bitcoinjs-lib takes the key: a point (compressed, for the two
\* segwit v0 types), or 32 bytes as a taproot internal key.
PaymentTakesKey(key, type) ==
    CASE type = "p2pkh" -> IsPointEncoding(key)
      [] type \in {"p2sh-p2wpkh", "p2wpkh"} -> IsCompressedPoint(key)
      [] type = "p2tr" -> InternalKeyOf(key).len = 32
      [] OTHER -> FALSE

\* The address of a key on one network, by type.
AddressOn(key, type, network) ==
    CASE type = "p2pkh" -> Base58Address(network.pubKeyHash, Hash160(key))
      [] type = "p2sh-p2wpkh" ->
           Base58Address(network.scriptHash, Hash160(WitnessProgramV0(Hash160(key))))
      [] type = "p2wpkh" -> Bech32Address(network.bech32, 0, Hash160(key), 20)
      [] type = "p2tr" -> Bech32Address(network.bech32, 1, TapTweak(InternalKeyOf(key)), 32)

\* C19: convertPubKeyIntoAddress returns the pair {mainnet, testnet} of the
\* key's addresses for each of the four types 'p2pkh', 'p2sh-p2wpkh', 'p2wpkh'
\* and 'p2tr', and raises for any other type; for 'p2tr' the address of a
\* 33-byte key is that of its bytes 1..32, and a key of any other length is
\* handed to the payment as it is (which takes 32 bytes and refuses 65).
C19_ConvertPubKeyIntoAddress ==
    helper = "convertPubKeyIntoAddress" =>
        LET key == input.arg[1]
            type == input.arg[2]
        IN /\ type \notin SupportedTypes
              => /\ output.threw
                 /\ output.val = "Cannot convert public key into unsupported address type."
           /\ (type \in SupportedTypes /\ PaymentTakesKey(key, type))
              => /\ ~output.threw
                 /\ output.val = [mainnet |-> AddressOn(key, type, Networks.bitcoin),
                                  testnet |-> AddressOn(key, type, Networks.testnet)]
           /\ (type \in SupportedTypes /\ ~PaymentTakesKey(key, type))
              => output.threw /\ output.val = "TypeError"
           /\ (type = "p2tr" /\ key.len = 33)
              => /\ ~output.threw
                 /\ output.val.mainnet.prog = TapTweak(XOnlyKey(key.id))
                 /\ output.val.mainnet.hrp = Networks.bitcoin.bech32
                 /\ output.val.testnet.hrp = Networks.testnet.bech32

\* C19 witness: a 33-byte key was converted for 'p2tr' and a pair came back.
C19_Witness ==
    /\ helper = "convertPubKeyIntoAddress"
    /\ input.arg[2] = "p2tr"
    /\ input.arg[1].len = 33
    /\ ~output.threw
    /\ output.val.mainnet # output.val.testnet

\* C20 as claimed: isP2WPKH returns a boolean for every address string and
\* never raises: true for a valid P2WPKH address, false for anything else, a
\* 'bc1q'/'tb1q' string of a length other than 42 and 62 or with a wrong
\* checksum included.
C20_IsP2WPKHNeverRaises ==
    helper = "isP2WPKH" =>
        /\ ~output.threw
        /\ output.val = (\E s \in DecodedScripts(input.arg) :
                             s.type = "p2wpkh" /\ s.byteLength = 22)

\* C21 as claimed: every address isValidBitcoinAddress answers true for is
\* converted by convertAdressToScriptPubkey to a scriptPubKey without an
\* error, regtest bech32 addresses and witness versions above 1 included.
C21_ValidatorConverterAgreement ==
    (helper = "convertAdressToScriptPubkey" /\ isValidBitcoinAddress(input.arg))
    => ~output.threw

DecodesToEmptyStack(s) ==
    LET witness == Deserialize(s)
    IN ~witness.threw /\ Len(witness.val) = 0

\* C23: a signature that decodes to an empty witness stack satisfies neither
\* isP2WPKHWitness nor isSingleKeyP2TRWitness, and verifySignature does not
\* return true for it against a P2WPKH, P2SH-P2WPKH or P2TR address.
C23_EmptyWitness ==
    DecodesToEmptyStack(signature)
    => /\ ~isP2WPKHWitness(Deserialize(signature).val)
       /\ ~isSingleKeyP2TRWitness(Deserialize(signature).val)
       /\ (/\ pc = "returned"
           /\ IsP2WPKHAddress(address) \/ IsP2SHAddress(address) \/ IsP2TRAddress(address))
          => result # "true"

\* C23 witness: verifySignature returned for the empty stack and a P2TR
\* address, handed to the BIP-322 verifier, with an error of the witness
\* shape.
C23_Witness ==
    /\ pc = "returned"
    /\ DecodesToEmptyStack(signature)
    /\ IsP2TRAddress(address)
    /\ path = "bip322"
    /\ result \in RequireKinds

\* How many of the four address-type predicates answer true for a string on
\* which isP2WPKH returns.
TruePredicates(a) ==
    Cardinality({p \in {"isP2PKH", "isP2SH", "isP2WPKH", "isP2TR"} :
                    CASE p = "isP2PKH" -> isP2PKH(a)
                      [] p = "isP2SH" -> isP2SH(a)
                      [] p = "isP2WPKH" -> isP2WPKH(a).val
                      [] OTHER -> isP2TR(a)})

\* C24: for an address string on which all four of isP2PKH, isP2SH, isP2WPKH
\* and isP2TR return, at most one of them is true: the one that answered true
\* is the only one; and a witness stack that satisfies one of isP2WPKHWitness
\* and isSingleKeyP2TRWitness does not satisfy the other.
C24_MutuallyExclusive ==
    /\ (/\ helper \in {"isP2PKH", "isP2SH", "isP2WPKH", "isP2TR"}
        /\ ~isP2WPKH(input.arg).threw)
       => /\ TruePredicates(input.arg) <= 1
          /\ ReturnedBool(TRUE) => TruePredicates(input.arg) = 1
    /\ (helper = "isP2WPKHWitness" /\ ReturnedBool(TRUE))
       => ~isSingleKeyP2TRWitness(input.arg)
    /\ (helper = "isSingleKeyP2TRWitness" /\ ReturnedBool(TRUE))
       => ~isP2WPKHWitness(input.arg)

\* C24 witness: isP2WPKH answered true for an address, and the three other
\* predicates answer false for it.
C24_Witness ==
    /\ helper = "isP2WPKH"
    /\ ReturnedBool(TRUE)
    /\ ~isP2PKH(input.arg) /\ ~isP2SH(input.arg) /\ ~isP2TR(input.arg)

\* C25: generateCompatibleSignatures(sig, 27, 42) on a 65-byte signature whose
\* header h0 is in 27..42 returns exactly the 4 signatures whose header is in
\* 27..42 and congruent to h0 modulo 4, in increasing order of the header,
\* each equal to the input in bytes 1..64; the input is one of them, and the
\* signature handed in is as it was.
C25_CompatibleSignatures ==
    (/\ pc \in {"generated", "compared"}
     /\ RawLength(signature) = 65
     /\ Header(signature) \in HeaderMin..HeaderMax)
    => /\ Len(compat) = 4
       /\ {compat[i].header : i \in 1..Len(compat)}
              = {h \in HeaderMin..HeaderMax : h % 4 = Header(signature) % 4}
       /\ \A i \in 1..Len(compat) :
              /\ RawLength(compat[i]) = 65
              /\ [compat[i] EXCEPT !.header = Header(signature)] = signature
       /\ \A i \in 1..(Len(compat) - 1) : compat[i].header < compat[i + 1].header
       /\ \E i \in 1..Len(compat) : compat[i] = signature
       /\ signature = original

\* C25 witness: the signatures were generated from one of header 32, and they
\* carry the headers 28, 32, 36, 40.
C25_Witness ==
    /\ pc = "generated"
    /\ Header(signature) = 32
    /\ Len(compat) = 4
    /\ compat[1].header = 28
    /\ compat[2] = signature
    /\ compat[4].header = 40

=============================================================================
